---------------------------- MODULE Spec2Model ----------------------------
(***************************************************************************)
(* CSV Field Mapper (src/9_csv_field_mapper.py): the mapping session of    *)
(* class CSVFieldMapper, its value extractors and its calculation engine.  *)
(*                                                                         *)
(* A text (a Python str) is a sequence of units; a unit is one character,  *)
(* or one word where the code never looks inside it (a JSON key, a JSON    *)
(* literal).  Target field names and CSV header names are atomic strings.  *)
(* A Python object is a record tagged by t: str, int, bool, None, list,    *)
(* dict; a raised exception is the record tagged "raise".                  *)
(***************************************************************************)
EXTENDS Integers, Sequences, FiniteSets, TLC

VARIABLES
    TARGET_FIELDS,    \* self.TARGET_FIELDS: the ordered target field list
    csv_headers,      \* self.csv_headers
    csv_data,         \* self.csv_data: the rows read after the header
    mappings,         \* self.mappings: a dict, kept in insertion order
    calculated_data,  \* self.calculated_data: None or a dict field -> column
    combo_values,     \* the values the mapping dropdowns offer
    calculate_btn,    \* whether the Calculate button is enabled
    automap_btn,      \* whether the two Auto-Map buttons are enabled
    csv_widgets,      \* self.csv_widgets: column -> usage count on its label
    save_btn,         \* whether the Save button is enabled
    last,             \* the last handler that ran, its arguments and outcome
    xraw,             \* extractor harness: the raw value handed in
    xtree,            \* extractor harness: the document xraw was written from
    xcall             \* extractor harness: the call made and what it returned

vars == <<TARGET_FIELDS, csv_headers, csv_data, mappings, calculated_data,
          combo_values, calculate_btn, automap_btn, csv_widgets, save_btn,
          last, xraw, xtree, xcall>>

sessionVars == <<TARGET_FIELDS, csv_headers, csv_data, mappings,
                 calculated_data, combo_values, calculate_btn, automap_btn,
                 csv_widgets, save_btn, last>>

harnessVars == <<xraw, xtree, xcall>>

(***************************************************************************)
(* Bounds of the model.                                                    *)
(***************************************************************************)
\* longest plain text enumerated for the extractors
MaxLen == 4
\* nesting depth at which the JSON scanner raises RecursionError (the
\* interpreter's recursion limit, about 1000, scaled down)
RecursionLimit == 4

(***************************************************************************)
(* Python objects.                                                         *)
(***************************************************************************)
PyStr(s) == [t |-> "str", s |-> s]

PyInt(n) == [t |-> "int", n |-> n]

PyBool(b) == [t |-> "bool", b |-> b]

PyNone == [t |-> "None"]

PyList(l) == [t |-> "list", l |-> l]

PyDict(d) == [t |-> "dict", d |-> d]

Raise(e) == [t |-> "raise", exc |-> e]

EmptyStr == PyStr(<<>>)

EmptyDict == PyDict(<<>>)

IsStr(v) == v.t = "str"

(***************************************************************************)
(* Characters.                                                             *)
(***************************************************************************)
Digits == {"0", "1", "2", "3", "4", "5", "6", "7", "8", "9"}

DigitVal(c) ==
    CASE c = "0" -> 0 [] c = "1" -> 1 [] c = "2" -> 2 [] c = "3" -> 3
      [] c = "4" -> 4 [] c = "5" -> 5 [] c = "6" -> 6 [] c = "7" -> 7
      [] c = "8" -> 8 [] c = "9" -> 9

DigitChar(d) ==
    CASE d = 0 -> "0" [] d = 1 -> "1" [] d = 2 -> "2" [] d = 3 -> "3"
      [] d = 4 -> "4" [] d = 5 -> "5" [] d = 6 -> "6" [] d = 7 -> "7"
      [] d = 8 -> "8" [] d = 9 -> "9"

\* str.upper() of one character
Upper(c) ==
    CASE c = "l" -> "L" [] c = "x" -> "X" [] c = "a" -> "A" [] c = "b" -> "B"
      [] OTHER -> c

\* str.lower() of a CSV header name
Lower(h) ==
    CASE h = "HILINE_SECTION" -> "hiline_section"
      [] h = "Hiline_Road" -> "hiline_road"
      [] h = "Business_Data" -> "business_data"
      [] h = "ID" -> "id"
      [] OTHER -> h

AllDigits(s) == \A i \in 1..Len(s) : s[i] \in Digits

(***************************************************************************)
(* int(text) and str(int), as _extract_klasse uses them.  int() accepts an *)
(* optional sign before one or more digits; (the blanks and underscores it *)
(* also accepts are not in the alphabet of the model).                     *)
(***************************************************************************)
RECURSIVE DigitsValue(_)
DigitsValue(s) ==
    IF s = <<>> THEN 0
    ELSE 10 * DigitsValue(SubSeq(s, 1, Len(s) - 1)) + DigitVal(s[Len(s)])

IntParses(s) ==
    LET body == IF s # <<>> /\ s[1] \in {"+", "-"} THEN Tail(s) ELSE s
    IN  body # <<>> /\ AllDigits(body)

IntValue(s) ==
    IF s[1] = "-" THEN 0 - DigitsValue(Tail(s))
    ELSE IF s[1] = "+" THEN DigitsValue(Tail(s))
    ELSE DigitsValue(s)

RECURSIVE NatToText(_)
NatToText(n) ==
    IF n < 10 THEN <<DigitChar(n)>>
    ELSE NatToText(n \div 10) \o <<DigitChar(n % 10)>>

IntToText(n) == IF n < 0 THEN <<"-">> \o NatToText(0 - n) ELSE NatToText(n)

(***************************************************************************)
(* json.loads: the scanner over the units of a text.  Structural units are *)
(* { } [ ] : , and the quote; null, true and false are one unit each; a    *)
(* number is an optional minus and digits without a leading zero.  Every   *)
(* object or array entered counts one level of recursion.                  *)
(***************************************************************************)
Ok(v, next) == [ok |-> TRUE, v |-> v, next |-> next]

Fail(e) == [ok |-> FALSE, exc |-> e]

\* the position of the closing quote at or after i, or 0
RECURSIVE ClosingQuote(_, _)
ClosingQuote(s, i) ==
    IF i > Len(s) THEN 0
    ELSE IF s[i] = "\"" THEN i
    ELSE ClosingQuote(s, i + 1)

\* the position after the last digit of the digit run starting at i
RECURSIVE DigitRunEnd(_, _)
DigitRunEnd(s, i) ==
    IF i <= Len(s) /\ s[i] \in Digits THEN DigitRunEnd(s, i + 1) ELSE i

ScanString(s, i) ==
    LET q == ClosingQuote(s, i + 1)
    IN  IF q = 0 THEN Fail("JSONDecodeError")
        ELSE Ok(PyStr(SubSeq(s, i + 1, q - 1)), q + 1)

ScanNumber(s, i) ==
    LET neg == s[i] = "-"
        d   == IF neg THEN i + 1 ELSE i
    IN  IF d > Len(s) \/ s[d] \notin Digits THEN Fail("JSONDecodeError")
        ELSE LET e == IF s[d] = "0" THEN d + 1 ELSE DigitRunEnd(s, d)
                 n == DigitsValue(SubSeq(s, d, e - 1))
             IN  Ok(PyInt(IF neg THEN 0 - n ELSE n), e)

RECURSIVE ScanValue(_, _, _)
RECURSIVE ScanMembers(_, _, _, _)
RECURSIVE ScanElements(_, _, _, _)

\* the members of an object from the key at i on; acc holds those read
ScanMembers(s, i, depth, acc) ==
    IF i > Len(s) \/ s[i] # "\"" THEN Fail("JSONDecodeError")
    ELSE LET k == ScanString(s, i)
         IN  IF ~k.ok THEN k
             ELSE IF k.next > Len(s) \/ s[k.next] # ":"
                  THEN Fail("JSONDecodeError")
             ELSE LET v == ScanValue(s, k.next + 1, depth)
                  IN  IF ~v.ok THEN v
                      ELSE LET d == (k.v.s :> v.v) @@ acc
                           IN  IF v.next > Len(s) THEN Fail("JSONDecodeError")
                               ELSE IF s[v.next] = "}"
                                    THEN Ok(PyDict(d), v.next + 1)
                               ELSE IF s[v.next] = ","
                                    THEN ScanMembers(s, v.next + 1, depth, d)
                               ELSE Fail("JSONDecodeError")

\* the elements of an array from the value at i on; acc holds those read
ScanElements(s, i, depth, acc) ==
    LET v == ScanValue(s, i, depth)
    IN  IF ~v.ok THEN v
        ELSE LET l == Append(acc, v.v)
             IN  IF v.next > Len(s) THEN Fail("JSONDecodeError")
                 ELSE IF s[v.next] = "]" THEN Ok(PyList(l), v.next + 1)
                 ELSE IF s[v.next] = ","
                      THEN ScanElements(s, v.next + 1, depth, l)
                 ELSE Fail("JSONDecodeError")

\* one value starting at i, with depth levels of objects and arrays open
ScanValue(s, i, depth) ==
    IF i > Len(s) THEN Fail("JSONDecodeError")
    ELSE IF s[i] = "\"" THEN ScanString(s, i)
    ELSE IF s[i] = "{" THEN
        IF depth + 1 > RecursionLimit THEN Fail("RecursionError")
        ELSE IF i + 1 <= Len(s) /\ s[i + 1] = "}" THEN Ok(EmptyDict, i + 2)
        ELSE ScanMembers(s, i + 1, depth + 1, <<>>)
    ELSE IF s[i] = "[" THEN
        IF depth + 1 > RecursionLimit THEN Fail("RecursionError")
        ELSE IF i + 1 <= Len(s) /\ s[i + 1] = "]" THEN Ok(PyList(<<>>), i + 2)
        ELSE ScanElements(s, i + 1, depth + 1, <<>>)
    ELSE IF s[i] = "null" THEN Ok(PyNone, i + 1)
    ELSE IF s[i] = "true" THEN Ok(PyBool(TRUE), i + 1)
    ELSE IF s[i] = "false" THEN Ok(PyBool(FALSE), i + 1)
    ELSE IF s[i] = "-" \/ s[i] \in Digits THEN ScanNumber(s, i)
    ELSE Fail("JSONDecodeError")

\* json.loads(text): the object, or the exception raised
json_loads(s) ==
    LET r == ScanValue(s, 1, 0)
    IN  IF ~r.ok THEN Raise(r.exc)
        ELSE IF r.next # Len(s) + 1 THEN Raise("JSONDecodeError")
        ELSE r.v

(***************************************************************************)
(* The value extractors.                                                   *)
(***************************************************************************)
survey_tp3_fields ==
    ("EFLI" :> <<"efli">>) @@ ("AFLI" :> <<"afli">>) @@ ("RISS" :> <<"riss">>)
    @@ ("ONA" :> <<"ona">>)

eval_tp3_fields ==
    ("ZWAUS" :> <<"zwaus">>) @@ ("ZWBIN" :> <<"zwbin">>)
    @@ ("ZWONA" :> <<"zwona">>) @@ ("ZWRSF" :> <<"zwrsf">>)
    @@ ("ZWSCH" :> <<"zwsch">>) @@ ("ZWAFLI" :> <<"zwafli">>)
    @@ ("ZWBORD" :> <<"zwbord">>) @@ ("ZWEFLI" :> <<"zwefli">>)
    @@ ("ZWRISS" :> <<"zwriss">>) @@ ("ZWWURZ" :> <<"zwwurz">>)

overall_fields ==
    ("GW" :> <<"gw">>) @@ ("GEB" :> <<"geb">>) @@ ("SUB" :> <<"sub">>)

\* o.get(key, default); an object that is no dict has no attribute get
PyGet(o, key, default) ==
    IF o.t = "raise" THEN o
    ELSE IF o.t # "dict" THEN Raise("AttributeError")
    ELSE IF key \in DOMAIN o.d THEN o.d[key]
    ELSE default

\* data.get(top, {}).get(sub, {}).get(key, "")
GetPath(data, top, sub, key) ==
    PyGet(PyGet(PyGet(data, <<top>>, EmptyDict), <<sub>>, EmptyDict),
          key, EmptyStr)

\* the except clause of _extract_from_business_data
CaughtByExtractor == {"JSONDecodeError", "AttributeError", "TypeError"}

\* a variant that looks the overall keys up under tp3
MutLookupBusinessData(data, target_field) ==
    IF data.t = "raise" THEN data
    ELSE IF target_field \in DOMAIN survey_tp3_fields
    THEN GetPath(data, "survey_result", "tp3", survey_tp3_fields[target_field])
    ELSE IF target_field \in DOMAIN eval_tp3_fields
    THEN GetPath(data, "evaluation_result", "tp3", eval_tp3_fields[target_field])
    ELSE IF target_field \in DOMAIN overall_fields
    THEN GetPath(data, "evaluation_result", "tp3", overall_fields[target_field])
    ELSE EmptyStr

\* the try block of _extract_from_business_data once json.loads has returned
\* data (or raised)
LookupBusinessData(data, target_field) ==
    IF data.t = "raise" THEN data
    ELSE IF target_field \in DOMAIN survey_tp3_fields
    THEN GetPath(data, "survey_result", "tp3", survey_tp3_fields[target_field])
    ELSE IF target_field \in DOMAIN eval_tp3_fields
    THEN GetPath(data, "evaluation_result", "tp3", eval_tp3_fields[target_field])
    ELSE IF target_field \in DOMAIN overall_fields
    THEN GetPath(data, "evaluation_result", "overall",
                 overall_fields[target_field])
    ELSE EmptyStr

\* the except clause: the three exception classes named return ""
ExceptClause(r) ==
    IF r.t = "raise" /\ r.exc \in CaughtByExtractor THEN EmptyStr ELSE r

_extract_from_business_data(json_str, target_field) ==
    ExceptClause(LookupBusinessData(json_loads(json_str), target_field))

\* a variant that rounds the midpoint up
MutExtractVnk(hiline_section) ==
    IF Len(hiline_section) >= 2
    THEN SubSeq(hiline_section, 1, (Len(hiline_section) + 1) \div 2)
    ELSE hiline_section

_extract_vnk(hiline_section) ==
    IF hiline_section # <<>> /\ Len(hiline_section) >= 2
    THEN LET half_len == Len(hiline_section) \div 2
         IN  SubSeq(hiline_section, 1, half_len)
    ELSE hiline_section

_extract_nnk(hiline_section) ==
    IF hiline_section # <<>> /\ Len(hiline_section) >= 2
    THEN LET half_len == Len(hiline_section) \div 2
         IN  SubSeq(hiline_section, half_len + 1, Len(hiline_section))
    ELSE hiline_section

\* a variant that keeps the numeric part as read
MutExtractKlasse(hiline_road) ==
    IF hiline_road = <<>> THEN <<>>
    ELSE <<Upper(hiline_road[1])>> \o Tail(hiline_road)

_extract_klasse(hiline_road) ==
    IF hiline_road = <<>> THEN <<>>
    ELSE LET letter == Upper(hiline_road[1])
             numeric_part == IF Len(hiline_road) > 1 THEN Tail(hiline_road)
                             ELSE <<>>
         IN  IF IntParses(numeric_part)
             THEN <<letter>> \o IntToText(IntValue(numeric_part))
             ELSE <<letter>> \o numeric_part

\* a variant that renders the number as _extract_klasse does
MutExtractNummer(hiline_road) ==
    IF hiline_road = <<>> THEN <<>>
    ELSE IF IntParses(Tail(hiline_road))
         THEN IntToText(IntValue(Tail(hiline_road)))
    ELSE Tail(hiline_road)

_extract_nummer(hiline_road) ==
    IF hiline_road = <<>> THEN <<>>
    ELSE IF Len(hiline_road) > 1 THEN Tail(hiline_road) ELSE <<>>

\* the target fields calculate_data hands to _extract_from_business_data
BusinessDataFields ==
    {"EFLI", "AFLI", "RISS", "ZWAUS", "ZWBIN", "ZWONA", "ZWRSF", "ZWSCH",
     "ZWAFLI", "ZWBORD", "ZWEFLI", "ZWRISS", "ZWWURZ", "GW", "GEB", "SUB"}

\* a variant that compares the column name as it is spelled
MutExtractValue(target_field, csv_column, raw_value) ==
    IF target_field = "VNK" /\ csv_column = "hiline_section"
    THEN PyStr(_extract_vnk(raw_value))
    ELSE IF target_field = "NNK" /\ csv_column = "hiline_section"
    THEN PyStr(_extract_nnk(raw_value))
    ELSE IF target_field = "KLASSE" /\ csv_column = "hiline_road"
    THEN PyStr(_extract_klasse(raw_value))
    ELSE IF target_field = "NUMMER" /\ csv_column = "hiline_road"
    THEN PyStr(_extract_nummer(raw_value))
    ELSE IF csv_column = "business_data"
            /\ target_field \in BusinessDataFields
    THEN _extract_from_business_data(raw_value, target_field)
    ELSE PyStr(raw_value)

\* the value calculate_data appends for one cell: the rule chosen by the
\* target field and the lower-cased column name, applied to the raw value
ExtractValue(target_field, csv_column, raw_value) ==
    IF target_field = "VNK" /\ Lower(csv_column) = "hiline_section"
    THEN PyStr(_extract_vnk(raw_value))
    ELSE IF target_field = "NNK" /\ Lower(csv_column) = "hiline_section"
    THEN PyStr(_extract_nnk(raw_value))
    ELSE IF target_field = "KLASSE" /\ Lower(csv_column) = "hiline_road"
    THEN PyStr(_extract_klasse(raw_value))
    ELSE IF target_field = "NUMMER" /\ Lower(csv_column) = "hiline_road"
    THEN PyStr(_extract_nummer(raw_value))
    ELSE IF Lower(csv_column) = "business_data"
            /\ target_field \in BusinessDataFields
    THEN _extract_from_business_data(raw_value, target_field)
    ELSE PyStr(raw_value)

(***************************************************************************)
(* The inputs of the extractor harness: plain texts, JSON documents        *)
(* written out from their trees, and texts that are no JSON document.      *)
(***************************************************************************)
Chars == {"l", "0", "4", "-"}

RECURSIVE TextsOfLen(_)
TextsOfLen(n) ==
    IF n = 0 THEN {<<>>}
    ELSE {Append(s, c) : s \in TextsOfLen(n - 1), c \in Chars}

PlainTexts ==
    UNION {TextsOfLen(n) : n \in 0..MaxLen}
    \cup {<<"l", "0", "0", "4", "8">>, <<"x", "7">>,
          <<"A", "B", "C", "D", "E", "F">>, <<"+", "4">>, <<"l", "-", "0">>}

\* json.dumps without blanks
RECURSIVE Dumps(_)
RECURSIVE DumpMembers(_, _)
RECURSIVE DumpElements(_, _)

DumpMembers(d, keys) ==
    LET k == CHOOSE x \in keys : TRUE
        one == <<"\"">> \o k \o <<"\"", ":">> \o Dumps(d[k])
    IN  IF keys = {k} THEN one
        ELSE one \o <<",">> \o DumpMembers(d, keys \ {k})

DumpElements(l, i) ==
    IF i = Len(l) THEN Dumps(l[i])
    ELSE Dumps(l[i]) \o <<",">> \o DumpElements(l, i + 1)

Dumps(v) ==
    CASE v.t = "str" -> <<"\"">> \o v.s \o <<"\"">>
      [] v.t = "int" -> IntToText(v.n)
      [] v.t = "bool" -> IF v.b THEN <<"true">> ELSE <<"false">>
      [] v.t = "None" -> <<"null">>
      [] v.t = "list" -> IF v.l = <<>> THEN <<"[", "]">>
                         ELSE <<"[">> \o DumpElements(v.l, 1) \o <<"]">>
      [] v.t = "dict" -> IF v.d = <<>> THEN <<"{", "}">>
                         ELSE <<"{">> \o DumpMembers(v.d, DOMAIN v.d)
                              \o <<"}">>

Obj1(k, v) == PyDict(<<k>> :> v)

DocTops == {"survey_result", "evaluation_result"}

DocSubs == {"tp3", "overall"}

DocKeys == {"efli", "ona", "zwaus", "geb", "gw"}

DocLeaves ==
    {PyStr(<<"3">>), PyStr(<<>>), PyInt(3), PyBool(TRUE), PyNone,
     PyList(<<PyInt(1)>>), Obj1("a", PyInt(1))}

NonObjects == {PyNone, PyInt(7), PyStr(<<"x">>), PyList(<<>>)}

DocTrees ==
    {Obj1(a, Obj1(b, Obj1(k, v))) :
        a \in DocTops, b \in DocSubs, k \in DocKeys, v \in DocLeaves}
    \cup {Obj1(a, Obj1(b, n)) : a \in DocTops, b \in DocSubs,
                                n \in NonObjects \cup {EmptyDict}}
    \cup {Obj1(a, n) : a \in DocTops, n \in NonObjects \cup {EmptyDict}}
    \cup NonObjects
    \cup {EmptyDict, Obj1("other", PyInt(1)),
          PyDict((<<"survey_result">> :> Obj1("tp3", Obj1("efli", PyInt(1))))
                 @@ (<<"evaluation_result">> :>
                        Obj1("overall", Obj1("geb", PyStr(<<"3">>)))))}

GebDoc == Obj1("evaluation_result", Obj1("overall", Obj1("geb", PyStr(<<"3">>))))

Prefixes(s) == {SubSeq(s, 1, n) : n \in 0..(Len(s) - 1)}

\* more open brackets than the scanner can enter
DeepText == [i \in 1..(RecursionLimit + 1) |-> "["]

DeepDoc == DeepText \o [i \in 1..(RecursionLimit + 1) |-> "]"]

Unparseable ==
    Prefixes(Dumps(GebDoc))
    \cup {Dumps(GebDoc) \o <<"}">>, <<"{", "\"", "geb", "\"", ":", "3", ",", "}">>,
          <<"[", "1", ",", "]">>, <<"0", "0", "4">>, <<"geb">>}

NoTree == [t |-> "notree"]

NoCall == [fn |-> "none"]

\* the target fields whose cells the harness extracts
XFields ==
    BusinessDataFields
    \cup {"VNK", "NNK", "KLASSE", "NUMMER", "ONA", "ID", "vnk", "geb"}

\* the column names the harness extracts from
XCols ==
    {"hiline_section", "HILINE_SECTION", "hiline_road", "Hiline_Road",
     "business_data", "Business_Data", "ID", "notes"}

(***************************************************************************)
(* Python dicts that the session iterates: a sequence of entries [k, v] in *)
(* insertion order, each key once.                                         *)
(***************************************************************************)
Entry(k, v) == [k |-> k, v |-> v]

DictKeys(d) == {d[i].k : i \in DOMAIN d}

DictHas(d, k) == \E i \in DOMAIN d : d[i].k = k

DictGet(d, k) == d[CHOOSE i \in DOMAIN d : d[i].k = k].v

\* d[k] = v: a key already present keeps its place
DictSet(d, k, v) ==
    IF DictHas(d, k)
    THEN [i \in DOMAIN d |-> IF d[i].k = k THEN Entry(k, v) ELSE d[i]]
    ELSE Append(d, Entry(k, v))

\* del d[k]
DictDel(d, k) == SelectSeq(d, LAMBDA e : e.k # k)

Range(s) == {s[i] : i \in DOMAIN s}

(***************************************************************************)
(* The inputs of the session: the target field lists the edit dialog can   *)
(* submit and the CSV files the file dialog can open.                      *)
(***************************************************************************)
\* the class attribute, cut to three of its names
DEFAULT_TARGET_FIELDS == <<"ID", "KLASSE", "GEB">>

\* str.strip() of a line of the edit dialog
Strip(line) ==
    CASE line = " " -> ""
      [] line = " GEB " -> "GEB"
      [] OTHER -> line

\* the lines the user can leave in the edit dialog: the default names, one
\* padded name, a name twice, nothing, and blank lines only
EditedTexts ==
    {DEFAULT_TARGET_FIELDS, <<" GEB ">>, <<"ID", "ID", "GEB">>, <<>>,
     <<" ", "">>}

\* [f.strip() for f in text.strip().split("\n") if f.strip()]
DialogFields(lines) ==
    SelectSeq([i \in DOMAIN lines |-> Strip(lines[i])], LAMBDA f : f # "")

\* the field lists the dialog's save can arrive at
EditedFieldLists == {DialogFields(lines) : lines \in EditedTexts}

NumDoc == Obj1("evaluation_result", Obj1("overall", Obj1("geb", PyInt(3))))

NullDoc == Obj1("evaluation_result", Obj1("overall", Obj1("geb", PyNone)))

\* a file with a free-text column and a document column; its rows hold a
\* text nested too deep for the scanner, a numeric value, a ragged row and
\* a null value
File1 ==
    [headers |-> <<"notes", "Business_Data">>,
     rows |-> << <<DeepText, Dumps(GebDoc)>>,
                 <<<<"x", "7">>, Dumps(NumDoc)>>,
                 <<<<"l", "0">>>>,
                 <<<<"4">>, Dumps(NullDoc)>> >>]

\* a file whose header line ends in a delimiter and that has no data rows
File2 ==
    [headers |-> <<"Business_Data", "Hiline_Road", "">>,
     rows |-> << >>]

\* a file whose first line is blank: csv.reader reads it as no header at all
File3 ==
    [headers |-> << >>,
     rows |-> << << <<"x", "7">> >> >>]

\* a file whose document column holds a text nested too deep
File4 ==
    [headers |-> <<"Business_Data">>,
     rows |-> << <<DeepText>> >>]

\* what the file dialog can open: a file that reads to its end, one that
\* cannot be read at all (it is empty, or open fails), and one whose header
\* line reads and whose data rows make the reader raise csv.Error
CsvFiles ==
    {[headers |-> f.headers, rows |-> f.rows, fault |-> "none"] :
        f \in {File1, File2, File3, File4}}
    \cup {[headers |-> f.headers, rows |-> f.rows, fault |-> x] :
             f \in {File1, File2}, x \in {"open", "rows"}}

\* calculated_data: None, or the dict of columns
None == [t |-> "None"]

Calculated(cols) == [t |-> "table", cols |-> cols]

(***************************************************************************)
(* The calculation engine: the body of the try block of calculate_data.    *)
(***************************************************************************)
\* {k: v for k, v in self.mappings.items() if v}
ActiveMappings(m) == SelectSeq(m, LAMBDA e : e.v # "")

\* header_index.get(csv_column, -1), 0-based; a name read twice keeps the
\* later index
HeaderIndex(headers, csv_column) ==
    IF \E i \in DOMAIN headers : headers[i] = csv_column
    THEN (CHOOSE i \in DOMAIN headers :
             /\ headers[i] = csv_column
             /\ \A j \in DOMAIN headers : headers[j] = csv_column => j <= i) - 1
    ELSE -1

\* a variant that reads a missing column from the end of the row (row[-1])
MutRawValue(row, csv_col_index) ==
    IF csv_col_index < Len(row) /\ row # <<>>
    THEN (IF csv_col_index < 0 THEN row[Len(row)] ELSE row[csv_col_index + 1])
    ELSE <<>>

\* row[csv_col_index] if 0 <= csv_col_index < len(row) else ""
RawValue(row, csv_col_index) ==
    IF 0 <= csv_col_index /\ csv_col_index < Len(row)
    THEN row[csv_col_index + 1]
    ELSE <<>>

\* the value appended for one mapped field of one row
CellOf(headers, row, e) ==
    ExtractValue(e.k, e.v, RawValue(row, HeaderIndex(headers, e.v)))

\* the values one row appends, in the order of the active mappings
RowCells(headers, row, active) ==
    [j \in DOMAIN active |-> CellOf(headers, row, active[j])]

RECURSIVE CalcRows(_, _, _, _, _)
RECURSIVE AppendCells(_, _, _, _, _, _)

\* the columns after the cells of row row_idx; the first value that raises
\* ends the loop
AppendCells(headers, rows, active, row_idx, cols, cells) ==
    IF \E j \in DOMAIN cells : cells[j].t = "raise"
    THEN [ok |-> FALSE,
          exc |-> cells[CHOOSE j \in DOMAIN cells :
                      /\ cells[j].t = "raise"
                      /\ \A i \in 1..(j - 1) : cells[i].t # "raise"].exc]
    ELSE CalcRows(headers, rows, active, row_idx + 1,
                  [j \in DOMAIN cols |->
                      Entry(cols[j].k, Append(cols[j].v, cells[j]))])

\* the row loop from row_idx on, over the columns filled so far
CalcRows(headers, rows, active, row_idx, cols) ==
    IF row_idx > Len(rows) THEN [ok |-> TRUE, cols |-> cols]
    ELSE AppendCells(headers, rows, active, row_idx, cols,
                     RowCells(headers, rows[row_idx], active))

\* {field: [] for field in active_mappings.keys()}
EmptyColumns(active) == [j \in DOMAIN active |-> Entry(active[j].k, <<>>)]

\* lines 863-897
Calculate(headers, rows, m) ==
    CalcRows(headers, rows, ActiveMappings(m), 1,
             EmptyColumns(ActiveMappings(m)))

(***************************************************************************)
(* The session: CSVFieldMapper's handlers.                                 *)
(***************************************************************************)
\* update_csv_panel: csv_widgets is emptied and gets one entry per header,
\* its label empty (no usage shown); a name read twice keeps one entry
RECURSIVE update_csv_panel(_, _, _)
update_csv_panel(headers, i, widgets) ==
    IF i > Len(headers) THEN widgets
    ELSE update_csv_panel(headers, i + 1, DictSet(widgets, headers[i], 0))

\* column_usage_count.get(col_name, 0) after the loop over
\* self.mappings.values() from entry i on
RECURSIVE column_usage_count(_, _, _)
column_usage_count(m, i, col_name) ==
    IF i > Len(m) THEN 0
    ELSE (IF m[i].v = col_name THEN 1 ELSE 0)
         + column_usage_count(m, i + 1, col_name)

\* update_csv_mapped_indicators: every column's label shows its usage count
update_csv_mapped_indicators(widgets, m) ==
    [i \in DOMAIN widgets |->
        Entry(widgets[i].k, column_usage_count(m, 1, widgets[i].k))]

SessionInit ==
    /\ TARGET_FIELDS = DEFAULT_TARGET_FIELDS
    /\ csv_headers = <<>>
    /\ csv_data = <<>>
    /\ mappings = <<>>
    /\ calculated_data = None
    /\ combo_values = <<>>
    /\ calculate_btn = FALSE
    /\ automap_btn = FALSE
    /\ csv_widgets = <<>>
    /\ save_btn = FALSE
    /\ last = [op |-> "init"]

HarnessIdle ==
    /\ xraw = <<>>
    /\ xtree = NoTree
    /\ xcall = NoCall

Init == SessionInit /\ HarnessIdle

\* load_csv with a file chosen in the dialog.  The header is assigned
\* before the data rows are read; the lines after the read loop run only
\* when the whole file was read.
load_csv(file) ==
    /\ IF file.fault = "none"
       THEN /\ csv_headers' = file.headers
            /\ csv_data' = file.rows
            /\ calculated_data' = None
            /\ combo_values' = <<"">> \o file.headers
            /\ calculate_btn' = TRUE
            /\ automap_btn' = TRUE
            /\ csv_widgets' = update_csv_panel(file.headers, 1, <<>>)
            /\ last' = [op |-> "load_csv", outcome |-> "ok"]
       ELSE IF file.fault = "rows"
       THEN /\ csv_headers' = file.headers
            /\ UNCHANGED <<csv_data, calculated_data, combo_values,
                           calculate_btn, automap_btn, csv_widgets>>
            /\ last' = [op |-> "load_csv", outcome |-> "error",
                        before |-> [headers |-> csv_headers,
                                    table |-> calculated_data]]
       ELSE /\ UNCHANGED <<csv_headers, csv_data, calculated_data,
                           combo_values, calculate_btn, automap_btn,
                           csv_widgets>>
            /\ last' = [op |-> "load_csv", outcome |-> "error",
                        before |-> [headers |-> csv_headers,
                                    table |-> calculated_data]]
    /\ UNCHANGED <<TARGET_FIELDS, mappings, save_btn>>

\* a variant that keeps the calculated table when a mapping is chosen
MutOnMappingSelected(target_field, csv_column) ==
    /\ csv_column \in Range(combo_values)
    /\ mappings' = IF csv_column # "" THEN DictSet(mappings, target_field, csv_column)
                   ELSE DictDel(mappings, target_field)
    /\ csv_widgets' = update_csv_mapped_indicators(csv_widgets, mappings')
    /\ save_btn' = (mappings' # <<>>)
    /\ last' = [op |-> "on_mapping_selected", f |-> target_field,
                c |-> csv_column]
    /\ UNCHANGED <<TARGET_FIELDS, csv_headers, csv_data, calculated_data,
                   combo_values, calculate_btn, automap_btn>>

\* a variant that lets a column be bound to one target field only
MutSelectExclusive(target_field, csv_column) ==
    /\ csv_column \in Range(combo_values)
    /\ mappings' = IF csv_column # ""
                   THEN DictSet(SelectSeq(mappings,
                                          LAMBDA e : e.v # csv_column),
                                target_field, csv_column)
                   ELSE DictDel(mappings, target_field)
    /\ csv_widgets' = update_csv_mapped_indicators(csv_widgets, mappings')
    /\ calculated_data' = None
    /\ save_btn' = (mappings' # <<>>)
    /\ last' = [op |-> "on_mapping_selected", f |-> target_field,
                c |-> csv_column]
    /\ UNCHANGED <<TARGET_FIELDS, csv_headers, csv_data, combo_values,
                   calculate_btn, automap_btn>>

\* on_mapping_selected: a row's dropdown offers "" and the column names
on_mapping_selected(target_field, csv_column) ==
    /\ csv_column \in Range(combo_values)
    /\ mappings' = IF csv_column # "" THEN DictSet(mappings, target_field, csv_column)
                   ELSE DictDel(mappings, target_field)
    /\ csv_widgets' = update_csv_mapped_indicators(csv_widgets, mappings')
    /\ calculated_data' = None
    /\ save_btn' = (mappings' # <<>>)
    /\ last' = [op |-> "on_mapping_selected", f |-> target_field,
                c |-> csv_column]
    /\ UNCHANGED <<TARGET_FIELDS, csv_headers, csv_data, combo_values,
                   calculate_btn, automap_btn>>

clear_single_mapping(target_field) ==
    /\ mappings' = DictDel(mappings, target_field)
    /\ csv_widgets' = update_csv_mapped_indicators(csv_widgets, mappings')
    /\ calculated_data' = None
    /\ last' = [op |-> "clear_single_mapping", f |-> target_field]
    /\ UNCHANGED <<TARGET_FIELDS, csv_headers, csv_data, combo_values,
                   calculate_btn, automap_btn, save_btn>>

clear_mappings ==
    /\ mappings' = <<>>
    /\ csv_widgets' = update_csv_mapped_indicators(csv_widgets, mappings')
    /\ calculated_data' = None
    /\ save_btn' = FALSE
    /\ last' = [op |-> "clear_mappings"]
    /\ UNCHANGED <<TARGET_FIELDS, csv_headers, csv_data, combo_values,
                   calculate_btn, automap_btn>>

\* the loop of auto_map from index i (1-based) on
RECURSIVE AutoMapFrom(_, _, _, _)
AutoMapFrom(fields, headers, i, m) ==
    IF i > Len(fields) THEN m
    ELSE AutoMapFrom(fields, headers, i + 1,
                     IF i <= Len(headers) THEN DictSet(m, fields[i], headers[i])
                     ELSE m)

\* a variant that does not clear the mapping first
MutAutoMap ==
    /\ automap_btn
    /\ IF csv_headers = <<>>
       THEN UNCHANGED <<mappings, calculated_data, calculate_btn,
                        csv_widgets, save_btn>>
       ELSE /\ mappings' = AutoMapFrom(TARGET_FIELDS, csv_headers, 1, mappings)
            /\ csv_widgets' =
                  update_csv_mapped_indicators(csv_widgets, mappings')
            /\ calculated_data' = None
            /\ save_btn' = FALSE
            /\ calculate_btn' = (csv_data # <<>>)
    /\ last' = [op |-> "auto_map"]
    /\ UNCHANGED <<TARGET_FIELDS, csv_headers, csv_data, combo_values,
                   automap_btn>>

\* auto_map; clear_mappings runs first
auto_map ==
    /\ automap_btn
    /\ IF csv_headers = <<>>
       THEN UNCHANGED <<mappings, calculated_data, calculate_btn,
                        csv_widgets, save_btn>>
       ELSE /\ mappings' = AutoMapFrom(TARGET_FIELDS, csv_headers, 1, <<>>)
            /\ csv_widgets' =
                  update_csv_mapped_indicators(csv_widgets, mappings')
            /\ calculated_data' = None
            /\ save_btn' = FALSE
            /\ calculate_btn' = (csv_data # <<>>)
    /\ last' = [op |-> "auto_map"]
    /\ UNCHANGED <<TARGET_FIELDS, csv_headers, csv_data, combo_values,
                   automap_btn>>

\* mapping_rules of smart_auto_map, in the order the dict is written
mapping_rules ==
    << [col |-> "id", fields |-> <<"ID">>],
       [col |-> "hiline_carriageway", fields |-> <<"LAGE">>],
       [col |-> "hiline_road", fields |-> <<"KLASSE", "NUMMER">>],
       [col |-> "business_data",
        fields |-> <<"EFLI", "AFLI", "RISS", "ZWAUS", "ZWBIN", "ZWONA",
                     "ZWRSF", "ZWSCH", "ZWAFLI", "ZWBORD", "ZWEFLI",
                     "ZWRISS", "ZWWURZ", "GW", "GEB", "SUB">>],
       [col |-> "hiline_section", fields |-> <<"VNK", "NNK">>],
       [col |-> "hiline_lane", fields |-> <<"FS">>] >>

\* a variant that binds the rule's own spelling of the column name
MutHeaderSpelled(headers, lower) == lower

\* csv_header_map[lower]: the header with that lower-cased name; of two that
\* differ in case only, the later one
HeaderSpelled(headers, lower) ==
    headers[CHOOSE i \in DOMAIN headers :
               /\ Lower(headers[i]) = lower
               /\ \A j \in DOMAIN headers : Lower(headers[j]) = lower => j <= i]

\* the inner loop of smart_auto_map over one rule's target fields
RECURSIVE BindFields(_, _, _, _, _)
BindFields(fields, i, col, widgets, acc) ==
    IF i > Len(fields) THEN acc
    ELSE BindFields(fields, i + 1, col, widgets,
                    IF fields[i] \in widgets
                    THEN [m |-> DictSet(acc.m, fields[i], col),
                          matched |-> acc.matched + 1]
                    ELSE acc)

\* the outer loop of smart_auto_map over the rules
RECURSIVE SmartMapFrom(_, _, _, _)
SmartMapFrom(r, headers, widgets, acc) ==
    IF r > Len(mapping_rules) THEN acc
    ELSE SmartMapFrom(r + 1, headers, widgets,
            IF \E i \in DOMAIN headers : Lower(headers[i]) = mapping_rules[r].col
            THEN BindFields(mapping_rules[r].fields, 1,
                            HeaderSpelled(headers, mapping_rules[r].col),
                            widgets, acc)
            ELSE acc)

\* the end of smart_auto_map: r holds the mapping built and the count
SmartMapEnds(r) ==
    /\ mappings' = r.m
    /\ csv_widgets' = update_csv_mapped_indicators(csv_widgets, r.m)
    /\ calculated_data' = None
    /\ save_btn' = FALSE
    /\ calculate_btn' = (csv_data # <<>>)
    /\ last' = [op |-> "smart_auto_map", reported |-> TRUE,
                matched |-> r.matched]

\* smart_auto_map; clear_mappings runs first
smart_auto_map ==
    /\ automap_btn
    /\ IF csv_headers = <<>>
       THEN /\ UNCHANGED <<mappings, calculated_data, calculate_btn,
                           csv_widgets, save_btn>>
            /\ last' = [op |-> "smart_auto_map", reported |-> FALSE]
       ELSE SmartMapEnds(SmartMapFrom(1, csv_headers, Range(TARGET_FIELDS),
                                      [m |-> <<>>, matched |-> 0]))
    /\ UNCHANGED <<TARGET_FIELDS, csv_headers, csv_data, combo_values,
                   automap_btn>>

\* a variant that restores every entry whose target field still has a row,
\* whatever its column
MutRestoreFrom(old_mappings, i, widgets, headers, m) ==
    SelectSeq(old_mappings, LAMBDA e : e.k \in widgets)

\* the restore loop of rebuild_target_panel from entry i of old_mappings on
RECURSIVE RestoreFrom(_, _, _, _, _)
RestoreFrom(old_mappings, i, widgets, headers, m) ==
    IF i > Len(old_mappings) THEN m
    ELSE RestoreFrom(old_mappings, i + 1, widgets, headers,
                     IF old_mappings[i].k \in widgets
                        /\ old_mappings[i].v \in Range(headers)
                     THEN DictSet(m, old_mappings[i].k, old_mappings[i].v)
                     ELSE m)

\* a variant that rebuilds the panel before it looks at the dialog's result
MutEditTargetFields(fields) ==
    /\ IF fields = <<>>
       THEN /\ mappings' = IF csv_headers # <<>>
                           THEN RestoreFrom(mappings, 1, Range(TARGET_FIELDS),
                                            csv_headers, <<>>)
                           ELSE <<>>
            /\ calculated_data' = None
            /\ UNCHANGED <<TARGET_FIELDS, combo_values, csv_widgets>>
            /\ last' = [op |-> "edit_target_fields", outcome |-> "warning",
                        fields |-> fields]
       ELSE /\ TARGET_FIELDS' = fields
            /\ mappings' = IF csv_headers # <<>>
                           THEN RestoreFrom(mappings, 1, Range(fields),
                                            csv_headers, <<>>)
                           ELSE <<>>
            /\ csv_widgets' =
                  IF csv_headers # <<>> /\ mappings # <<>>
                  THEN update_csv_mapped_indicators(csv_widgets, mappings')
                  ELSE csv_widgets
            /\ combo_values' = IF csv_headers # <<>>
                               THEN <<"">> \o csv_headers
                               ELSE <<>>
            /\ calculated_data' = None
            /\ last' = [op |-> "edit_target_fields", outcome |-> "ok",
                        fields |-> fields, before |-> mappings]
    /\ UNCHANGED <<csv_headers, csv_data, calculate_btn, automap_btn,
                   save_btn>>

\* edit_target_fields with the list the dialog is left with: an empty list
\* is refused by the dialog, which then closes without a result
edit_target_fields(fields) ==
    /\ IF fields = <<>>
       THEN /\ UNCHANGED <<TARGET_FIELDS, mappings, calculated_data,
                           combo_values, csv_widgets>>
            /\ last' = [op |-> "edit_target_fields", outcome |-> "warning",
                        fields |-> fields]
       ELSE /\ TARGET_FIELDS' = fields
            /\ mappings' = IF csv_headers # <<>>
                           THEN RestoreFrom(mappings, 1, Range(fields),
                                            csv_headers, <<>>)
                           ELSE <<>>
            /\ csv_widgets' =
                  IF csv_headers # <<>> /\ mappings # <<>>
                  THEN update_csv_mapped_indicators(csv_widgets, mappings')
                  ELSE csv_widgets
            /\ combo_values' = IF csv_headers # <<>>
                               THEN <<"">> \o csv_headers
                               ELSE <<>>
            /\ calculated_data' = None
            /\ last' = [op |-> "edit_target_fields", outcome |-> "ok",
                        fields |-> fields, before |-> mappings]
    /\ UNCHANGED <<csv_headers, csv_data, calculate_btn, automap_btn,
                   save_btn>>

\* the end of a run: the table is kept and the run reported, or the except
\* clause discards the table
RunEnds(r) ==
    IF r.ok
    THEN /\ calculated_data' = Calculated(r.cols)
         /\ save_btn' = TRUE
         /\ last' = [op |-> "calculate_data", outcome |-> "ok"]
    ELSE /\ calculated_data' = None
         /\ UNCHANGED save_btn
         /\ last' = [op |-> "calculate_data", outcome |-> "error",
                     exc |-> r.exc, before |-> calculated_data]

\* a variant without the check for an empty mapping
MutCalculateData ==
    /\ calculate_btn
    /\ IF csv_data = <<>>
       THEN /\ UNCHANGED <<calculated_data, save_btn>>
            /\ last' = [op |-> "calculate_data", outcome |-> "warning"]
       ELSE RunEnds(Calculate(csv_headers, csv_data, mappings))
    /\ UNCHANGED <<TARGET_FIELDS, csv_headers, csv_data, mappings,
                   combo_values, calculate_btn, automap_btn, csv_widgets>>

\* calculate_data: the two warnings, the run, and the except clause
calculate_data ==
    /\ calculate_btn
    /\ IF mappings = <<>> \/ csv_data = <<>>
       THEN /\ UNCHANGED <<calculated_data, save_btn>>
            /\ last' = [op |-> "calculate_data", outcome |-> "warning"]
       ELSE RunEnds(Calculate(csv_headers, csv_data, mappings))
    /\ UNCHANGED <<TARGET_FIELDS, csv_headers, csv_data, mappings,
                   combo_values, calculate_btn, automap_btn, csv_widgets>>

(***************************************************************************)
(* The export to a delimited file: save_to_access with the CSV format      *)
(* chosen and a path given.  What is written is kept as the rows handed to *)
(* the csv writer.                                                         *)
(***************************************************************************)
\* repr() of a value, as str() of a list or dict shows its parts
RECURSIVE PyRepr(_)
RECURSIVE ReprElements(_, _)
RECURSIVE ReprMembers(_, _)

ReprElements(l, i) ==
    IF i = Len(l) THEN PyRepr(l[i])
    ELSE PyRepr(l[i]) \o <<",", " ">> \o ReprElements(l, i + 1)

ReprMembers(d, keys) ==
    IF keys = {(CHOOSE x \in keys : TRUE)}
    THEN <<"'">> \o (CHOOSE x \in keys : TRUE) \o <<"'", ":", " ">>
         \o PyRepr(d[CHOOSE x \in keys : TRUE])
    ELSE <<"'">> \o (CHOOSE x \in keys : TRUE) \o <<"'", ":", " ">>
         \o PyRepr(d[CHOOSE x \in keys : TRUE]) \o <<",", " ">>
         \o ReprMembers(d, keys \ {(CHOOSE x \in keys : TRUE)})

PyRepr(v) ==
    CASE v.t = "str" -> <<"'">> \o v.s \o <<"'">>
      [] v.t = "int" -> IntToText(v.n)
      [] v.t = "bool" -> IF v.b THEN <<"True">> ELSE <<"False">>
      [] v.t = "None" -> <<"None">>
      [] v.t = "list" -> IF v.l = <<>> THEN <<"[", "]">>
                         ELSE <<"[">> \o ReprElements(v.l, 1) \o <<"]">>
      [] v.t = "dict" -> IF v.d = <<>> THEN <<"{", "}">>
                         ELSE <<"{">> \o ReprMembers(v.d, DOMAIN v.d)
                              \o <<"}">>

\* str(value)
PyStrOf(v) == IF v.t = "str" THEN v.s ELSE PyRepr(v)

\* a variant without the test for None
MutExportCell(value) == PyStrOf(value)

\* the text appended to a row: "" if value is None else str(value)
ExportCell(value) == IF value.t = "None" THEN <<>> ELSE PyStrOf(value)

\* a variant that collects the fields in a set, which hands them back in
\* another order
MutFieldsWithData(cols) ==
    [j \in 1..Len(SelectSeq(cols, LAMBDA e : e.v # <<>>)) |->
        SelectSeq(cols, LAMBDA e : e.v # <<>>)
            [Len(SelectSeq(cols, LAMBDA e : e.v # <<>>)) + 1 - j]]

\* [f for f in self.calculated_data.keys() if self.calculated_data[f]]
fields_with_data(cols) == SelectSeq(cols, LAMBDA e : e.v # <<>>)

\* the rows written after the header: one per index below num_rows
ExportRows(fields, num_rows) ==
    [i \in 1..num_rows |->
        [j \in DOMAIN fields |-> ExportCell(fields[j].v[i])]]

\* _save_as_csv once fields_with_data is known: the warning, the failure of
\* open() or of an index past a shorter column, or the header and the
\* rows
SaveAsCsvOf(fields, writable) ==
    IF fields = <<>>
    THEN [op |-> "save_as_csv", outcome |-> "warning"]
    ELSE IF ~writable
            \/ \E j \in DOMAIN fields : Len(fields[j].v) < Len(fields[1].v)
    THEN [op |-> "save_as_csv", outcome |-> "error"]
    ELSE [op |-> "save_as_csv", outcome |-> "ok",
          header |-> [j \in DOMAIN fields |-> fields[j].k],
          rows |-> ExportRows(fields, Len(fields[1].v))]

_save_as_csv(writable) ==
    SaveAsCsvOf(fields_with_data(calculated_data.cols), writable)

\* save_to_access: nothing is saved without a calculated table
save_to_access(writable) ==
    /\ save_btn
    /\ last' = IF calculated_data.t = "None" \/ calculated_data.cols = <<>>
               THEN [op |-> "save_to_access", outcome |-> "warning"]
               ELSE _save_as_csv(writable)
    /\ UNCHANGED <<TARGET_FIELDS, csv_headers, csv_data, mappings,
                   calculated_data, combo_values, calculate_btn,
                   automap_btn, csv_widgets, save_btn>>

Next ==
    \/ \E file \in CsvFiles : load_csv(file) /\ UNCHANGED harnessVars
    \/ \E f \in Range(TARGET_FIELDS), c \in Range(combo_values) :
          on_mapping_selected(f, c) /\ UNCHANGED harnessVars
    \/ \E f \in Range(TARGET_FIELDS) :
          clear_single_mapping(f) /\ UNCHANGED harnessVars
    \/ clear_mappings /\ UNCHANGED harnessVars
    \/ auto_map /\ UNCHANGED harnessVars
    \/ smart_auto_map /\ UNCHANGED harnessVars
    \/ \E fields \in EditedFieldLists :
          edit_target_fields(fields) /\ UNCHANGED harnessVars
    \/ calculate_data /\ UNCHANGED harnessVars
    \/ \E writable \in BOOLEAN :
          save_to_access(writable) /\ UNCHANGED harnessVars

Spec == Init /\ [][Next]_vars

(***************************************************************************)
(* The extractor harness: one raw value, and one call on it.               *)
(***************************************************************************)
ExtractInit ==
    /\ SessionInit
    /\ xcall = NoCall
    /\ \/ xtree \in DocTrees /\ xraw = Dumps(xtree)
       \/ /\ xtree = NoTree
          /\ xraw \in PlainTexts \cup Unparseable \cup {DeepText, DeepDoc}

\* _extract_vnk and _extract_nnk on the same value
CallSection ==
    /\ xcall = NoCall
    /\ xcall' = [fn |-> "section", vnk |-> _extract_vnk(xraw),
                 nnk |-> _extract_nnk(xraw)]
    /\ UNCHANGED <<sessionVars, xraw, xtree>>

\* _extract_klasse and _extract_nummer on the same value
CallRoad ==
    /\ xcall = NoCall
    /\ xcall' = [fn |-> "road", klasse |-> _extract_klasse(xraw),
                 nummer |-> _extract_nummer(xraw)]
    /\ UNCHANGED <<sessionVars, xraw, xtree>>

CallBusinessData(target_field) ==
    /\ xcall = NoCall
    /\ xcall' = [fn |-> "business_data", key |-> target_field,
                 ret |-> _extract_from_business_data(xraw, target_field)]
    /\ UNCHANGED <<sessionVars, xraw, xtree>>

\* the value calculate_data would append for every target field bound to
\* csv_column
ExtractCells(csv_column) ==
    /\ xcall = NoCall
    /\ xcall' = [fn |-> "cells", col |-> csv_column,
                 ret |-> [f \in XFields |-> ExtractValue(f, csv_column, xraw)]]
    /\ UNCHANGED <<sessionVars, xraw, xtree>>

ExtractNext ==
    \/ CallSection
    \/ CallRoad
    \/ \E k \in BusinessDataFields \cup {"ONA", "ID"} : CallBusinessData(k)
    \/ \E c \in XCols : ExtractCells(c)

ExtractSpec == ExtractInit /\ [][ExtractNext]_vars

(***************************************************************************)
(* Delimiter detection of load_csv, on the sample read from the head of    *)
(* the file.  A sample is a sequence of characters.                        *)
(***************************************************************************)
SampleChars == {";", ",", "\t", "\n", "a"}

Samples == UNION {[1..n -> SampleChars] : n \in 0..MaxLen}

\* sample.split('\n')[0]
first_line(sample) ==
    LET stops == {i \in DOMAIN sample : sample[i] = "\n"}
    IN  IF stops = {} THEN sample
        ELSE SubSeq(sample, 1, (CHOOSE i \in stops : \A j \in stops : i <= j) - 1)

\* str.count of a single character
count(line, ch) == Cardinality({i \in DOMAIN line : line[i] = ch})

\* a variant that takes the first of semicolon, tab, comma with the
\* largest count
MutChooseDelimiter(semicolon_count, comma_count, tab_count) ==
    IF semicolon_count >= comma_count /\ semicolon_count >= tab_count THEN ";"
    ELSE IF tab_count >= comma_count THEN "\t"
    ELSE ","

\* the if / elif / else over the three counts
choose_delimiter(semicolon_count, comma_count, tab_count) ==
    IF semicolon_count > comma_count /\ semicolon_count > tab_count THEN ";"
    ELSE IF tab_count > comma_count /\ tab_count > semicolon_count THEN "\t"
    ELSE ","

DelimiterInit ==
    /\ SessionInit
    /\ xtree = NoTree
    /\ xcall = NoCall
    /\ xraw \in Samples

\* the detection step of load_csv on the sample
DetectDelimiter ==
    /\ xcall = NoCall
    /\ xcall' = [fn |-> "delimiter",
                 semicolon_count |-> count(first_line(xraw), ";"),
                 comma_count |-> count(first_line(xraw), ","),
                 tab_count |-> count(first_line(xraw), "\t"),
                 csv_delimiter |-> choose_delimiter(count(first_line(xraw), ";"),
                                                    count(first_line(xraw), ","),
                                                    count(first_line(xraw), "\t"))]
    /\ UNCHANGED <<sessionVars, xraw, xtree>>

DelimiterNext == DetectDelimiter

DelimiterSpec == DelimiterInit /\ [][DelimiterNext]_vars

(***************************************************************************)
(* Properties.  The definitions below state what is expected in terms of   *)
(* the specification text; none of them is used by the model above.        *)
(***************************************************************************)
\* the columns of the calculated table, by target field
TableFields == {calculated_data.cols[j].k : j \in DOMAIN calculated_data.cols}

\* the target fields bound to a column name (the empty name is the unbound
\* state of a row)
BoundFields == {mappings[j].k : j \in {i \in DOMAIN mappings : mappings[i].v # ""}}

\* row i's value under the header named c, "" when the row does not reach it
ValueUnder(i, c) ==
    IF \E j \in DOMAIN csv_headers : csv_headers[j] = c /\ j <= Len(csv_data[i])
    THEN csv_data[i][CHOOSE j \in DOMAIN csv_headers : csv_headers[j] = c]
    ELSE <<>>

\* C1: whenever the calculated table is present, it is the result of
\* calculating over the current headers, rows and mapping; so no handler
\* leaves a table behind that was computed from an earlier mapping or
\* source table.
C1_CalculatedTableIsCurrent ==
    calculated_data.t = "table" =>
        /\ Calculate(csv_headers, csv_data, mappings).ok
        /\ Calculate(csv_headers, csv_data, mappings).cols = calculated_data.cols

C3_InputErrorChangesNothing ==
    [][(last'.op = "calculate_data" /\ (mappings = <<>> \/ csv_data = <<>>))
          => /\ last'.outcome = "warning"
             /\ UNCHANGED <<mappings, csv_headers, csv_data, TARGET_FIELDS,
                            calculated_data>>]_vars

\* C3 witness: the warning was given for a bound field and no data rows.
C3_Witness ==
    /\ last.op = "calculate_data"
    /\ last.outcome = "warning"
    /\ mappings # <<>>
    /\ csv_data = <<>>

C5_ExtractionIsTotal ==
    /\ xcall.fn = "business_data" => xcall.ret.t # "raise"
    /\ xcall.fn = "cells" => \A f \in XFields : xcall.ret[f].t # "raise"
    /\ (xcall.fn = "business_data" /\ xraw \in Unparseable)
          => xcall.ret = EmptyStr

\* C6: every cell of the calculated table is a string.
C6_CellsAreStrings ==
    calculated_data.t = "table" =>
        \A j \in DOMAIN calculated_data.cols :
            \A i \in DOMAIN calculated_data.cols[j].v :
                IsStr(calculated_data.cols[j].v[i])

\* C7: for a value of length n >= 2, VNK is its first n div 2 characters and
\* NNK the characters after them; for n < 2 both are the value itself; for
\* even n, VNK followed by NNK is the value.
C7_SectionSplit ==
    xcall.fn = "section" =>
        LET n == Len(xraw)
            h == n \div 2
        IN  /\ n >= 2 =>
                /\ Len(xcall.vnk) = h
                /\ \A i \in 1..h : xcall.vnk[i] = xraw[i]
                /\ Len(xcall.nnk) = n - h
                /\ \A i \in 1..(n - h) : xcall.nnk[i] = xraw[h + i]
            /\ n < 2 => xcall.vnk = xraw /\ xcall.nnk = xraw
            /\ n % 2 = 0 => xcall.vnk \o xcall.nnk = xraw

\* C7 witness: ABCDEF was split into ABC and DEF.
C7_Witness ==
    /\ xcall.fn = "section"
    /\ xraw = <<"A", "B", "C", "D", "E", "F">>
    /\ xcall.vnk = <<"A", "B", "C">>
    /\ xcall.nnk = <<"D", "E", "F">>

\* digits without their leading zeros (the last digit stays)
RECURSIVE StripZeros(_)
StripZeros(d) ==
    IF Len(d) > 1 /\ d[1] = "0" THEN StripZeros(Tail(d)) ELSE d

\* whether a text is written as an integer: a sign, or none, then digits
WrittenAsInteger(r) ==
    /\ r # <<>>
    /\ \/ AllDigits(r)
       \/ r[1] \in {"+", "-"} /\ Len(r) > 1 /\ AllDigits(Tail(r))

\* an integer as it is written without leading zeros
WithoutLeadingZeros(r) ==
    IF r[1] = "-" THEN (IF StripZeros(Tail(r)) = <<"0">> THEN <<"0">>
                        ELSE <<"-">> \o StripZeros(Tail(r)))
    ELSE IF r[1] = "+" THEN StripZeros(Tail(r))
    ELSE StripZeros(r)

\* C8: KLASSE of the empty value is empty; otherwise it is the first
\* character in upper case, followed by the rest written as an integer
\* without leading zeros when the rest is an integer, and by the rest as it
\* is when it is not (the empty rest included).
C8_KlasseRule ==
    xcall.fn = "road" =>
        xcall.klasse =
            IF xraw = <<>> THEN <<>>
            ELSE IF WrittenAsInteger(Tail(xraw))
                 THEN <<Upper(xraw[1])>> \o WithoutLeadingZeros(Tail(xraw))
            ELSE <<Upper(xraw[1])>> \o Tail(xraw)

\* C8 witness: l0048 gave L48.
C8_Witness ==
    /\ xcall.fn = "road"
    /\ xraw = <<"l", "0", "0", "4", "8">>
    /\ xcall.klasse = <<"L", "4", "8">>

\* C9: NUMMER is every character after the first, as read; it is empty for
\* the empty value and for a value of one character.
C9_NummerRule ==
    xcall.fn = "road" =>
        /\ Len(xcall.nummer) = (IF Len(xraw) = 0 THEN 0 ELSE Len(xraw) - 1)
        /\ \A i \in DOMAIN xcall.nummer : xcall.nummer[i] = xraw[i + 1]

\* C9 witness: l0048 gave 0048.
C9_Witness ==
    /\ xcall.fn = "road"
    /\ xraw = <<"l", "0", "0", "4", "8">>
    /\ xcall.nummer = <<"0", "0", "4", "8">>

\* the path table of the specification: the two objects a key is looked up
\* under, and the key in lower case
PathTable ==
    [EFLI |-> <<"survey_result", "tp3", "efli">>,
     AFLI |-> <<"survey_result", "tp3", "afli">>,
     RISS |-> <<"survey_result", "tp3", "riss">>,
     ONA |-> <<"survey_result", "tp3", "ona">>,
     ZWAUS |-> <<"evaluation_result", "tp3", "zwaus">>,
     ZWBIN |-> <<"evaluation_result", "tp3", "zwbin">>,
     ZWONA |-> <<"evaluation_result", "tp3", "zwona">>,
     ZWRSF |-> <<"evaluation_result", "tp3", "zwrsf">>,
     ZWSCH |-> <<"evaluation_result", "tp3", "zwsch">>,
     ZWAFLI |-> <<"evaluation_result", "tp3", "zwafli">>,
     ZWBORD |-> <<"evaluation_result", "tp3", "zwbord">>,
     ZWEFLI |-> <<"evaluation_result", "tp3", "zwefli">>,
     ZWRISS |-> <<"evaluation_result", "tp3", "zwriss">>,
     ZWWURZ |-> <<"evaluation_result", "tp3", "zwwurz">>,
     GW |-> <<"evaluation_result", "overall", "gw">>,
     GEB |-> <<"evaluation_result", "overall", "geb">>,
     SUB |-> <<"evaluation_result", "overall", "sub">>]

\* whether d is an object with a member named k
HasMember(d, k) == d.t = "dict" /\ <<k>> \in DOMAIN d.d

\* d.a.b.k when d, d.a and d.a.b are objects and k is a key of d.a.b; the
\* empty string otherwise
Walk(d, path) ==
    IF /\ HasMember(d, path[1])
       /\ HasMember(d.d[<<path[1]>>], path[2])
       /\ HasMember(d.d[<<path[1]>>].d[<<path[2]>>], path[3])
    THEN d.d[<<path[1]>>].d[<<path[2]>>].d[<<path[3]>>]
    ELSE EmptyStr

\* the lookup of a key in a document written out from its tree follows the
\* path table
LookupFollowsPathTable ==
    (xcall.fn = "business_data" /\ xcall.key \in DOMAIN PathTable
        /\ xtree # NoTree)
        => xcall.ret = Walk(xtree, PathTable[xcall.key])

\* a value that is no document of the path table's shape gives ""
UnparsedGivesEmpty ==
    (xcall.fn = "business_data" /\ xcall.key \in DOMAIN PathTable
        /\ xtree = NoTree)
        => xcall.ret = EmptyStr

\* C10: the business-data lookup of key k in a document d is d's value at
\* the path the table gives for k; it is the empty string whenever the
\* value fails to parse or an object or the last key of the path is missing.
C10_BusinessDataLookup == LookupFollowsPathTable /\ UnparsedGivesEmpty

\* the spellings of a rule's column name that differ from it in case only
Spellings ==
    [hiline_section |-> {"hiline_section", "HILINE_SECTION"},
     hiline_road |-> {"hiline_road", "Hiline_Road"},
     business_data |-> {"business_data", "Business_Data"}]

\* the sixteen target fields of the business_data rule, as the
\* specification lists them
SixteenFields ==
    {"EFLI", "AFLI", "RISS", "ZWAUS", "ZWBIN", "ZWONA", "ZWRSF", "ZWSCH",
     "ZWAFLI", "ZWBORD", "ZWEFLI", "ZWRISS", "ZWWURZ", "GW", "GEB", "SUB"}

\* C11: the cell of a target field f bound to a column c is the result of
\* f's rule exactly when f is the rule's field name, as spelled, and c is
\* the rule's column name in any case (hiline_section for VNK and NNK,
\* hiline_road for KLASSE and NUMMER, business_data for the sixteen
\* fields); every other pair gives the raw value as it is.
C11_RuleDispatch ==
    xcall.fn = "cells" =>
        \A f \in XFields :
            xcall.ret[f] =
                IF f = "VNK" /\ xcall.col \in Spellings.hiline_section
                THEN PyStr(_extract_vnk(xraw))
                ELSE IF f = "NNK" /\ xcall.col \in Spellings.hiline_section
                THEN PyStr(_extract_nnk(xraw))
                ELSE IF f = "KLASSE" /\ xcall.col \in Spellings.hiline_road
                THEN PyStr(_extract_klasse(xraw))
                ELSE IF f = "NUMMER" /\ xcall.col \in Spellings.hiline_road
                THEN PyStr(_extract_nummer(xraw))
                ELSE IF f \in SixteenFields
                        /\ xcall.col \in Spellings.business_data
                THEN _extract_from_business_data(xraw, f)
                ELSE PyStr(xraw)

\* C11 witness: under the column Business_Data the cell of GEB is the value
\* looked up in the document, while ONA, geb and VNK keep the document text.
C11_Witness ==
    /\ xcall.fn = "cells"
    /\ xcall.col = "Business_Data"
    /\ xtree = GebDoc
    /\ xcall.ret["GEB"] = PyStr(<<"3">>)
    /\ xcall.ret["ONA"] = PyStr(xraw)
    /\ xcall.ret["geb"] = PyStr(xraw)
    /\ xcall.ret["VNK"] = PyStr(xraw)

\* the entries of a mapping as pairs of target field and column name
Pairs(m) == {<<m[i].k, m[i].v>> : i \in DOMAIN m}

\* C12: choosing column c for target field f leaves f bound to c when c is
\* not empty and leaves f without an entry when c is empty; the entries of
\* every other target field are the same as before, those bound to c too.
C12_SetTouchesOneEntry ==
    [][last'.op = "on_mapping_selected" =>
          /\ Pairs(mappings') =
                {p \in Pairs(mappings) : p[1] # last'.f}
                \cup (IF last'.c # "" THEN {<<last'.f, last'.c>>} ELSE {})
          /\ Len(mappings') = Cardinality(Pairs(mappings'))]_vars

\* C12 witness: a field was bound to a column that another field is bound
\* to as well.
C12_Witness ==
    /\ last.op = "on_mapping_selected"
    /\ last.c # ""
    /\ <<last.f, last.c>> \in Pairs(mappings)
    /\ \E p \in Pairs(mappings) : p[1] # last.f /\ p[2] = last.c

\* C13: clear_single_mapping of a target field deletes the field's entry
\* when there is one; when there is none, the mapping and the calculated
\* table stay as they were.
C13_RemoveAbsentIsNoOp ==
    [][last'.op = "clear_single_mapping" =>
          /\ Pairs(mappings') = {p \in Pairs(mappings) : p[1] # last'.f}
          /\ (\A p \in Pairs(mappings) : p[1] # last'.f)
                => /\ mappings' = mappings
                   /\ calculated_data' = calculated_data]_vars

\* C14: the usage count shown for a source column is the number of target
\* fields that the mapping binds to that column.
C14_UsageCountMatchesMapping ==
    \A i \in DOMAIN csv_widgets :
        csv_widgets[i].v =
            Cardinality({p \in Pairs(mappings) : p[2] = csv_widgets[i].k})

\* the smaller of two numbers
Min(a, b) == IF a <= b THEN a ELSE b

\* the positions at which auto_map pairs a target field with a header
PairedPositions == 1..Min(Len(TARGET_FIELDS), Len(csv_headers))

\* C15 as claimed: after auto_map every target field at a paired position
\* is bound to the header at the same position, every target field at a
\* later position is unmapped, and nothing of the mapping before is left.
C15_PositionalAsClaimed ==
    [][last'.op = "auto_map" =>
          /\ \A i \in PairedPositions :
                <<TARGET_FIELDS[i], csv_headers[i]>> \in Pairs(mappings')
          /\ \A i \in DOMAIN TARGET_FIELDS \ PairedPositions :
                \A p \in Pairs(mappings') : p[1] # TARGET_FIELDS[i]
          /\ Pairs(mappings') \subseteq
                {<<TARGET_FIELDS[i], csv_headers[i]>> : i \in PairedPositions}
      ]_vars

\* the last paired position at which the target field list names f
LastPaired(f) ==
    CHOOSE j \in PairedPositions :
        /\ TARGET_FIELDS[j] = f
        /\ \A k \in PairedPositions : TARGET_FIELDS[k] = f => k <= j

\* C15 amended: after auto_map with at least one header, the mapping holds
\* one entry for every target field named at a paired position, bound to
\* the header at the last paired position that names it (the header at its
\* own position when the name occurs once), and no other entry; with no
\* header, auto_map leaves the mapping and the calculated table as they
\* were.
C15_PositionalLastWins ==
    [][last'.op = "auto_map" =>
          IF csv_headers # <<>>
          THEN /\ Pairs(mappings') =
                     {<<TARGET_FIELDS[i],
                        csv_headers[LastPaired(TARGET_FIELDS[i])]>> :
                          i \in PairedPositions}
               /\ Len(mappings') = Cardinality(Pairs(mappings'))
          ELSE /\ mappings' = mappings
               /\ calculated_data' = calculated_data]_vars

\* C15 witness: three target fields were paired with two headers, the third
\* field stays unmapped.
C15_Witness ==
    /\ last.op = "auto_map"
    /\ Len(TARGET_FIELDS) = 3
    /\ Len(csv_headers) = 2
    /\ Pairs(mappings) = {<<TARGET_FIELDS[1], csv_headers[1]>>,
                          <<TARGET_FIELDS[2], csv_headers[2]>>}
    /\ TARGET_FIELDS[3] \notin {p[1] : p \in Pairs(mappings)}

\* the rule table of the specification: the spellings that match a rule's
\* column name ignoring case, and the target fields the rule lists
RuleTable ==
    {[spelled |-> {"ID", "id", "Id"}, fields |-> {"ID"}],
     [spelled |-> {"hiline_carriageway"}, fields |-> {"LAGE"}],
     [spelled |-> Spellings.hiline_road, fields |-> {"KLASSE", "NUMMER"}],
     [spelled |-> Spellings.business_data, fields |-> SixteenFields],
     [spelled |-> Spellings.hiline_section, fields |-> {"VNK", "NNK"}],
     [spelled |-> {"hiline_lane"}, fields |-> {"FS"}]}

\* C16: after smart_auto_map, for every rule whose column name is the name
\* of a current header in some case, every target field of the rule that
\* is in the target field list is bound to such a header, spelled as the
\* header is; and the count reported is the number of entries made.
C16_RulesBindMatchedHeaders ==
    [][last'.op = "smart_auto_map" =>
          /\ \A r \in RuleTable :
                (Range(csv_headers) \cap r.spelled # {}) =>
                    \A f \in r.fields \cap Range(TARGET_FIELDS) :
                        \E h \in Range(csv_headers) \cap r.spelled :
                            <<f, h>> \in Pairs(mappings')
          /\ last'.reported =>
                last'.matched = Cardinality(Pairs(mappings'))]_vars

\* C16 witness: two rules matched the headers Hiline_Road and
\* Business_Data, and two bindings were reported.
C16_Witness ==
    /\ last.op = "smart_auto_map"
    /\ last.reported
    /\ last.matched = 2
    /\ Pairs(mappings) = {<<"KLASSE", "Hiline_Road">>,
                          <<"GEB", "Business_Data">>}

\* whether the rule that lists target field f names a column that is among
\* the current headers, in some case
RuleColumnPresent(f) ==
    \E r \in RuleTable :
        f \in r.fields /\ Range(csv_headers) \cap r.spelled # {}

\* C17: smart_auto_map leaves alone every target field whose rule names a
\* column that is not among the current headers: the entry such a field had
\* before is there, unchanged, afterwards.
C17_UnmatchedFieldsKept ==
    [][last'.op = "smart_auto_map" =>
          \A p \in Pairs(mappings) :
              ~RuleColumnPresent(p[1]) => p \in Pairs(mappings')]_vars

\* the target fields bound to a column name that is not a current header
StaleFields ==
    {p[1] : p \in {q \in Pairs(mappings) :
                      q[2] # "" /\ q[2] \notin Range(csv_headers)}}

\* a run over a mapping with a stale entry ends without a fault
StaleRunCompletes ==
    (last.op = "calculate_data" /\ last.outcome # "warning"
        /\ StaleFields # {})
        => last.outcome = "ok"

\* after a completed run the column of a stale entry is "" in every row
StaleColumnsEmpty ==
    (last.op = "calculate_data" /\ last.outcome = "ok") =>
        \A f \in StaleFields :
            /\ Len(DictGet(calculated_data.cols, f)) = Len(csv_data)
            /\ \A i \in DOMAIN csv_data :
                  DictGet(calculated_data.cols, f)[i] = EmptyStr

\* C18: when a target field is bound to a column name that is not among
\* the current headers, calculate_data completes without a fault and that
\* field's column is the empty string in every row.
C18_StaleColumnGivesEmpty == StaleRunCompletes /\ StaleColumnsEmpty

\* whether a written text is the value rendered as a string: a string as
\* it is, a number in decimal digits without leading zeros, None as the
\* empty text
WrittenAs(cell, v) ==
    CASE v.t = "None" -> cell = <<>>
      [] v.t = "str" -> cell = v.s
      [] v.t = "int" -> /\ IntParses(cell)
                        /\ IntValue(cell) = v.n
                        /\ cell = WithoutLeadingZeros(cell)
      [] OTHER -> cell # <<>>

\* C19: the export writes a header row with the table's fields in the
\* table's order, then one row per source row in the original order; row i
\* holds, for every field, the field's i-th value rendered as a string,
\* None as the empty string; every column has as many values as there are
\* rows written.
C19_ExportMatchesTable ==
    (last.op = "save_as_csv" /\ last.outcome = "ok") =>
        /\ calculated_data.t = "table"
        /\ last.header = [j \in DOMAIN calculated_data.cols |->
                             calculated_data.cols[j].k]
        /\ Len(last.rows) = Len(csv_data)
        /\ \A j \in DOMAIN calculated_data.cols :
              Len(calculated_data.cols[j].v) = Len(last.rows)
        /\ \A i \in DOMAIN last.rows :
              /\ Len(last.rows[i]) = Len(calculated_data.cols)
              /\ \A j \in DOMAIN calculated_data.cols :
                    WrittenAs(last.rows[i][j], calculated_data.cols[j].v[i])

\* C19 witness: a table of two fields was written whose second column holds
\* a string, a number and None.
C19_Witness ==
    /\ last.op = "save_as_csv"
    /\ last.outcome = "ok"
    /\ Len(last.header) = 2
    /\ \E i \in DOMAIN last.rows :
          calculated_data.cols[2].v[i].t = "None" /\ last.rows[i][2] = <<>>
    /\ \E i \in DOMAIN last.rows :
          calculated_data.cols[2].v[i].t = "int" /\ last.rows[i][2] = <<"3">>
    /\ \E i \in DOMAIN last.rows :
          calculated_data.cols[2].v[i].t = "str" /\ last.rows[i][2] = <<"3">>

\* C20: an edit that leaves no field name (no line, or blank lines only)
\* is refused with a message and changes nothing: the target field list,
\* the mapping and the calculated table stay as they were.
C20_EmptyEditChangesNothing ==
    [][(last'.op = "edit_target_fields" /\ last'.fields = <<>>) =>
          /\ last'.outcome = "warning"
          /\ UNCHANGED <<TARGET_FIELDS, mappings, calculated_data>>]_vars

\* C20 witness: the empty list was refused while a mapping and a calculated
\* table were present.
C20_Witness ==
    /\ last.op = "edit_target_fields"
    /\ last.fields = <<>>
    /\ last.outcome = "warning"
    /\ mappings # <<>>
    /\ calculated_data.t = "table"

\* C21 as claimed: the fields of the header row written by the export
\* stand in the same relative order as in the target field list.
C21_HeaderInTargetOrder ==
    (last.op = "save_as_csv" /\ last.outcome = "ok") =>
        \A a, b \in DOMAIN last.header :
            a < b =>
                \E i, j \in DOMAIN TARGET_FIELDS :
                    /\ i < j
                    /\ TARGET_FIELDS[i] = last.header[a]
                    /\ TARGET_FIELDS[j] = last.header[b]

\* C21 amended: the fields of the header row written by the export stand
\* in the order of the mapping's entries, which is the order in which the
\* entries were made.
C21_HeaderInMappingOrder ==
    (last.op = "save_as_csv" /\ last.outcome = "ok") =>
        last.header =
            [j \in 1..Len(SelectSeq(mappings, LAMBDA e : e.v # "")) |->
                SelectSeq(mappings, LAMBDA e : e.v # "")[j].k]

\* C21 witness: GEB was bound before ID, and the header row is GEB, ID
\* while the target field list has ID before GEB.
C21_Witness ==
    /\ last.op = "save_as_csv"
    /\ last.outcome = "ok"
    /\ last.header = <<"GEB", "ID">>
    /\ TARGET_FIELDS = <<"ID", "KLASSE", "GEB">>

\* the number of times a character stands in the first line of the sample
Occurrences(ch) == Cardinality({i \in DOMAIN first_line(xraw) : first_line(xraw)[i] = ch})

\* C22: the delimiter detected is one of semicolon, comma, tab, and no
\* other of the three stands more often in the first line than it does,
\* ties included.
C22_DelimiterHasMaximumCount ==
    xcall.fn = "delimiter" =>
        /\ xcall.csv_delimiter \in {";", ",", "\t"}
        /\ \A ch \in {";", ",", "\t"} :
               Occurrences(ch) <= Occurrences(xcall.csv_delimiter)

\* what does hold: the delimiter detected is semicolon or tab exactly when
\* that one stands strictly more often than each of the other two, and is
\* comma in every other case
C22_StrictMaximumOrComma ==
    xcall.fn = "delimiter" =>
        /\ xcall.csv_delimiter = ";" <=>
               (Occurrences(";") > Occurrences(",") /\ Occurrences(";") > Occurrences("\t"))
        /\ xcall.csv_delimiter = "\t" <=>
               (Occurrences("\t") > Occurrences(",") /\ Occurrences("\t") > Occurrences(";"))
        /\ xcall.csv_delimiter \in {";", "\t", ","}

\* the entries of mapping m, in their order, whose target field is in the
\* list fields and whose column is one of headers
Restricted(m, fields, headers) ==
    SelectSeq(m, LAMBDA e : e.k \in Range(fields) /\ e.v \in Range(headers))

\* C23: an edit of the target field list that is accepted leaves the list
\* as edited, leaves in the mapping exactly the entries it had whose target
\* field is in the new list and whose column is a current header, in their
\* order, and leaves no calculated table.
C23_EditRestrictsMapping ==
    [][(last'.op = "edit_target_fields" /\ last'.outcome = "ok") =>
          /\ TARGET_FIELDS' = last'.fields
          /\ mappings' = Restricted(mappings, last'.fields, csv_headers)
          /\ Pairs(mappings') \subseteq Pairs(mappings)
          /\ calculated_data' = None
          /\ csv_headers' = csv_headers]_vars

\* C23 witness: with a file loaded, an accepted edit dropped the entry of a
\* removed field and the entry of a column that is no header any more, and
\* kept another entry.
C23_Witness ==
    /\ last.op = "edit_target_fields"
    /\ last.outcome = "ok"
    /\ csv_headers # <<>>
    /\ csv_data # <<>>
    /\ \E i \in DOMAIN last.before : last.before[i].k \notin Range(TARGET_FIELDS)
    /\ \E i \in DOMAIN last.before :
           /\ last.before[i].k \in Range(TARGET_FIELDS)
           /\ last.before[i].v \notin Range(csv_headers)
    /\ mappings # <<>>
    /\ calculated_data = None

\* every key of the mapping is a target field of the current list
KeysAreTargetFields ==
    \A i \in DOMAIN mappings : mappings[i].k \in Range(TARGET_FIELDS)

\* C24: in every state every key of the mapping is a target field of the
\* current list and every value of the mapping is a column name that is not
\* empty.
C24_MappingWellFormed ==
    /\ \A i \in DOMAIN mappings : mappings[i].k \in Range(TARGET_FIELDS)
    /\ \A i \in DOMAIN mappings : mappings[i].v # ""

\* a load that ends in the error outcome leaves the rows, the mapping and
\* the calculated table as they were
FailedLoadKeepsRowsMappingTable ==
    [][(last'.op = "load_csv" /\ last'.outcome = "error") =>
          UNCHANGED <<csv_data, mappings, calculated_data>>]_vars

\* C25: a load that ends in the error outcome, at whatever step it fails,
\* leaves the headers, the rows, the mapping and the calculated table
\* exactly as they were before the load.
C25_FailedLoadChangesNothing ==
    [][(last'.op = "load_csv" /\ last'.outcome = "error") =>
          /\ csv_headers' = csv_headers
          /\ csv_data' = csv_data
          /\ mappings' = mappings
          /\ calculated_data' = calculated_data]_vars

=============================================================================
